---- MODULE Spec2Model ----
(***************************************************************************)
(* Model of pkg/spdx/package.go: the Package aggregate (files,             *)
(* sub-packages, dependencies), identifier synthesis, the verification     *)
(* code and the recursive Render.                                          *)
(*                                                                         *)
(* Strings are sequences of tokens (a token is one character, or a fixed   *)
(* literal of the source such as "SPDXRef-File-"); "" is << >>.  Go        *)
(* pointers are object references: packages are 1..NumPkgs, files are      *)
(* 1..NumFiles, and an object exists once it has been constructed.         *)
(***************************************************************************)
EXTENDS Integers, Sequences, FiniteSets, TLC

\* ---------------------------------------------------------------- bounds
NumPkgs == 3          \* package objects the caller may construct
NumFlatPkgs == 2      \* package objects in the specification without sub-packages
NumFiles == 2         \* file objects the caller may construct
MaxTags == 2          \* Render is not called again once LicenseInfoFromFiles is this long
MaxEntries == 3       \* no attach call once the maps of all packages hold this many entries
NumThreads == 2       \* goroutines that each make one call

PkgRefs == 1..NumPkgs
FileRefs == 1..NumFiles
Threads == 1..NumThreads

\* ------------------------------------------------------- string helpers
EmptyStr == << >>

NONE == <<"NONE">>
NOASSERTION == <<"NOASSERTION">>

PkgPrefix == <<"SPDXRef-Package-">>
FilePrefix == <<"SPDXRef-File-">>

RECURSIVE JoinStrings(_)
\* strings.Join(list, "")
JoinStrings(list) ==
    IF list = << >> THEN EmptyStr ELSE Head(list) \o JoinStrings(Tail(list))

\* Byte order of the characters the model uses, as sort.Strings compares them.
ByteOrder == <<"!", "+", "-", ".", "0", "1", ":", "a", "b", "m", "n">>

Ord(c) == CHOOSE i \in 1..Len(ByteOrder) : ByteOrder[i] = c

RECURSIVE StrLess(_, _)
\* s < t, bytewise lexicographic (Go string comparison)
StrLess(s, t) ==
    IF t = << >> THEN FALSE
    ELSE IF s = << >> THEN TRUE
    ELSE IF Head(s) # Head(t) THEN Ord(Head(s)) < Ord(Head(t))
    ELSE StrLess(Tail(s), Tail(t))

RECURSIVE InsertSorted(_, _)
InsertSorted(x, list) ==
    IF list = << >> THEN <<x>>
    ELSE IF StrLess(Head(list), x) THEN <<Head(list)>> \o InsertSorted(x, Tail(list))
    ELSE <<x>> \o list

RECURSIVE SortStringsAsc(_)
SortStringsAsc(list) ==
    IF list = << >> THEN << >>
    ELSE InsertSorted(Head(list), SortStringsAsc(Tail(list)))

\* Mutant: the list is hashed in the order of the range over the map.
SortStringsUnsorted(list) == list

\* sort.Strings(shaList)
SortStrings(list) == SortStringsAsc(list)

\* fmt.Sprintf("%x", sha1(data)): the digest is an uninterpreted, collision-free
\* function of its input.
Sha1Hex(data) == <<"sha1(">> \o data \o <<")">>

\* html/template escapes every value it interpolates in text context.
EscapeChar(c) ==
    CASE c = "+" -> "&#43;"
      [] c = "<" -> "&lt;"
      [] c = ">" -> "&gt;"
      [] c = "&" -> "&amp;"
      [] OTHER -> c

HTMLEscape(s) == [i \in 1..Len(s) |-> EscapeChar(s[i])]

\* The set of sequences that enumerate the set S once each: the orders in
\* which a Go range over a map with key set S may visit it.
RECURSIVE Perms(_)
Perms(S) ==
    IF S = {} THEN { << >> }
    ELSE UNION { { <<x>> \o q : q \in Perms(S \ {x}) } : x \in S }

\* m[k] = v on a Go map
MapPut(m, k, v) == [x \in (DOMAIN m) \cup {k} |-> IF x = k THEN v ELSE m[x]]

EmptyMap == << >>

\* ------------------------------------------------------------- errors
\* An error is its message; nil is the empty message (no error of this file
\* has an empty message).
NilErr == << >>

\* errors.Wrap(err, msg)
Wrap(err, msg) == msg \o <<": ">> \o err

\* ---------------------------------------------------------------- state
VARIABLES
    npkg,       \* packages 1..npkg have been constructed
    nfile,      \* files 1..nfile have been constructed
    pkg,        \* pkg[p]: the fields of package object p
    file,       \* file[f]: the fields of file object f
    attached,   \* attached[p]: the files whose AddFile on p has returned nil
    ret,        \* the last call and what it returned
    mutex,      \* mutex[p]: the goroutine that holds the sync.RWMutex of p (0: free)
    thread      \* thread[t]: the call goroutine t makes and the statement it is at

vars == <<npkg, nfile, pkg, file, attached, ret, mutex, thread>>

\* A Package as NewPackage() returns it (zero values).  A nil map and an empty
\* map are both the map without entries: the code only ranges over the maps,
\* takes their len and looks keys up, and creates them before it writes.
ZeroPackage ==
    [ FilesAnalyzed |-> FALSE,
      Name |-> EmptyStr,
      ID |-> EmptyStr,
      DownloadLocation |-> EmptyStr,
      VerificationCode |-> EmptyStr,
      LicenseConcluded |-> EmptyStr,
      LicenseInfoFromFiles |-> << >>,
      LicenseDeclared |-> EmptyStr,
      CopyrightText |-> EmptyStr,
      Version |-> EmptyStr,
      FileName |-> EmptyStr,
      Packages |-> EmptyMap,
      Files |-> EmptyMap,
      Checksum |-> EmptyMap,
      Dependencies |-> EmptyMap ]

\* A File with zero values.  Checksum is a map (ChecksumNil: the map is nil);
\* RenderFails abstracts the conditions under which File.Render returns an error.
ZeroFile ==
    [ Name |-> EmptyStr,
      ID |-> EmptyStr,
      Checksum |-> EmptyMap, ChecksumNil |-> TRUE,
      LicenseInfoInFile |-> EmptyStr,
      RenderFails |-> FALSE ]

NoCall == [op |-> "none", recv |-> 0, arg |-> 0, err |-> NilErr, frag |-> << >>]

\* The record of a call: the operation, its receiver and argument (0: none), the
\* error and the fragment returned.
Call(op, recv, arg, err, frag) ==
    [op |-> op, recv |-> recv, arg |-> arg, err |-> err, frag |-> frag]

\* A goroutine that has not made its call.  sawNil: what its test of the map for
\* nil found; created: it has assigned a new map.  after is history, not program
\* state: the goroutines whose call had returned when this one began its call.
IdleThread ==
    [pc |-> "idle", op |-> "none", recv |-> 0, arg |-> 0, err |-> NilErr,
     sawNil |-> FALSE, created |-> FALSE, after |-> {}]

Init ==
    /\ npkg = 0
    /\ nfile = 0
    /\ pkg = [p \in PkgRefs |-> ZeroPackage]
    /\ file = [f \in FileRefs |-> ZeroFile]
    /\ attached = [p \in PkgRefs |-> {}]
    /\ ret = NoCall
    /\ mutex = [p \in PkgRefs |-> 0]
    /\ thread = [t \in Threads |-> IdleThread]

Live == 1..npkg
LiveFiles == 1..nfile

\* The entries of the Files, Packages and Dependencies maps of all packages.
Entries ==
    LET n(p) == Cardinality(DOMAIN pkg[p].Files) + Cardinality(DOMAIN pkg[p].Packages)
                + Cardinality(DOMAIN pkg[p].Dependencies)
        RECURSIVE Sum(_)
        Sum(k) == IF k = 0 THEN 0 ELSE n(k) + Sum(k - 1)
    IN Sum(NumPkgs)

\* ------------------------------------------------------ construction
\* NewPackage() followed by the caller's assignments to the exported fields.
NewPackage(in) ==
    /\ npkg < NumPkgs
    /\ npkg' = npkg + 1
    /\ pkg' = [pkg EXCEPT ![npkg + 1] =
                 [ZeroPackage EXCEPT !.Name = in.Name,
                                     !.ID = in.ID,
                                     !.FilesAnalyzed = in.FilesAnalyzed,
                                     !.LicenseConcluded = in.LicenseConcluded,
                                     !.LicenseDeclared = in.LicenseDeclared]]
    /\ ret' = Call("NewPackage", 0, npkg + 1, NilErr, << >>)
    /\ UNCHANGED <<nfile, file, attached, mutex, thread>>

\* A File literal built by the caller.
NewFile(in) ==
    /\ nfile < NumFiles
    /\ nfile' = nfile + 1
    /\ file' = [file EXCEPT ![nfile + 1] =
                 [ZeroFile EXCEPT !.Name = in.Name,
                                  !.ID = in.ID,
                                  !.Checksum = in.Checksum,
                                  !.ChecksumNil = in.ChecksumNil,
                                  !.LicenseInfoInFile = in.LicenseInfoInFile,
                                  !.RenderFails = in.RenderFails]]
    /\ ret' = Call("NewFile", 0, nfile + 1, NilErr, << >>)
    /\ UNCHANGED <<npkg, pkg, attached, mutex, thread>>

\* ------------------------------------------------------------- AddFile
\* The ID AddFile builds for a file without one.
FileIDFor(pkgName, fileName) == FilePrefix \o Sha1Hex(pkgName \o <<":">> \o fileName)

\* The error AddFile returns for file f on package p (NilErr: none).
AddFileErr(p, f) ==
    IF file[f].ID # EmptyStr THEN NilErr
    ELSE IF file[f].Name = EmptyStr
         THEN <<"unable to generate file ID, filename not set">>
    ELSE IF pkg[p].Name = EmptyStr
         THEN <<"unable to generate file ID, package not set">>
    ELSE NilErr

\* Mutant: the ID is built again for a file that has one.
AddFileIDRebuilt(p, f) ==
    IF AddFileErr(p, f) = NilErr /\ file[f].Name # EmptyStr /\ pkg[p].Name # EmptyStr
    THEN FileIDFor(pkg[p].Name, file[f].Name)
    ELSE file[f].ID

\* The ID of f after AddFile on p.
AddFileID(p, f) ==
    IF file[f].ID = EmptyStr /\ AddFileErr(p, f) = NilErr
    THEN FileIDFor(pkg[p].Name, file[f].Name)
    ELSE file[f].ID

\* Mutant: a file whose ID is already a key of Files is refused.
AddFileRefusesDuplicate(p, f) ==
    /\ p \in Live /\ f \in LiveFiles
    /\ Entries < MaxEntries
    /\ LET id == AddFileID(p, f)
           err == IF AddFileErr(p, f) # NilErr THEN AddFileErr(p, f)
                  ELSE IF id \in DOMAIN pkg[p].Files THEN <<"file already exists">>
                  ELSE NilErr
       IN /\ file' = [file EXCEPT ![f].ID = id]
          /\ pkg' = [pkg EXCEPT ![p].Files = IF err = NilErr THEN MapPut(@, id, f) ELSE @]
          /\ attached' = [attached EXCEPT ![p] = IF err = NilErr THEN @ \cup {f} ELSE @]
          /\ ret' = Call("AddFile", p, f, err, << >>)
    /\ UNCHANGED <<npkg, nfile, mutex, thread>>

AddFile(p, f) ==
    /\ p \in Live /\ f \in LiveFiles
    /\ Entries < MaxEntries
    /\ LET err == AddFileErr(p, f)
           id == AddFileID(p, f)
       IN /\ file' = [file EXCEPT ![f].ID = id]
          /\ pkg' = [pkg EXCEPT ![p].Files = IF err = NilErr THEN MapPut(@, id, f) ELSE @]
          /\ attached' = [attached EXCEPT ![p] = IF err = NilErr THEN @ \cup {f} ELSE @]
          /\ ret' = Call("AddFile", p, f, err, << >>)
    /\ UNCHANGED <<npkg, nfile, mutex, thread>>

\* ------------------------------------------- AddPackage, AddDependency
\* validNameCharsRe matches what is not a letter, a digit, '.' or '-'.
ValidNameChar(c) == c \in {"a", "b", "m", "n", "0", "1", ".", "-"}

\* reg.ReplaceAllString(pkg.Name, "")
StripName(name) == SelectSeq(name, ValidNameChar)

\* Mutant: the ID is built from the Name as it is.
DerivedIDUnstripped(st, q) ==
    IF st[q].ID = EmptyStr /\ st[q].Name # EmptyStr
    THEN PkgPrefix \o st[q].Name
    ELSE st[q].ID

\* The ID of a package after the first block of preProcessSubPackage.
DerivedID(st, q) ==
    IF st[q].ID = EmptyStr /\ StripName(st[q].Name) # EmptyStr
    THEN PkgPrefix \o StripName(st[q].Name)
    ELSE st[q].ID

\* Mutant: the lookup in p.Dependencies is missing.
preProcessNoDependencyCheck(st, p, q) ==
    LET st1 == [st EXCEPT ![q].ID = DerivedID(st, q)]
        id == st1[q].ID
    IN [ st |-> st1,
         err |-> IF id = EmptyStr
                 THEN <<"package name is needed to add a new package">>
                 ELSE IF id \in DOMAIN st1[p].Packages
                 THEN <<"a package named ">> \o id \o <<" already exists as a subpackage">>
                 ELSE NilErr ]

\* Mutant: the lookup in p.Packages is missing.
preProcessNoSubpackageCheck(st, p, q) ==
    LET st1 == [st EXCEPT ![q].ID = DerivedID(st, q)]
        id == st1[q].ID
    IN [ st |-> st1,
         err |-> IF id = EmptyStr
                 THEN <<"package name is needed to add a new package">>
                 ELSE IF id \in DOMAIN st1[p].Dependencies
                 THEN <<"a package named ">> \o id \o <<" already exists as a dependency">>
                 ELSE NilErr ]

\* preProcessSubPackage on the package table st: [err, st], st with pkg.ID set.
preProcessSubPackage(st, p, q) ==
    LET st1 == [st EXCEPT ![q].ID = DerivedID(st, q)]
        id == st1[q].ID
    IN [ st |-> st1,
         err |-> IF id = EmptyStr
                 THEN <<"package name is needed to add a new package">>
                 ELSE IF id \in DOMAIN st1[p].Packages
                 THEN <<"a package named ">> \o id \o <<" already exists as a subpackage">>
                 ELSE IF id \in DOMAIN st1[p].Dependencies
                 THEN <<"a package named ">> \o id \o <<" already exists as a dependency">>
                 ELSE NilErr ]

AddPackage(p, q) ==
    /\ p \in Live /\ q \in Live
    /\ Entries < MaxEntries
    /\ LET pre == preProcessSubPackage(pkg, p, q)
       IN IF pre.err # NilErr
          THEN /\ pkg' = pre.st
               /\ ret' = Call("AddPackage", p, q,
                              Wrap(pre.err, <<"performing subpackage preprocessing">>), << >>)
          ELSE /\ pkg' = [pre.st EXCEPT ![p].Packages = MapPut(@, pre.st[q].ID, q)]
               /\ ret' = Call("AddPackage", p, q, NilErr, << >>)
    /\ UNCHANGED <<npkg, nfile, file, attached, mutex, thread>>

AddDependency(p, q) ==
    /\ p \in Live /\ q \in Live
    /\ Entries < MaxEntries
    /\ LET pre == preProcessSubPackage(pkg, p, q)
       IN IF pre.err # NilErr
          THEN /\ pkg' = pre.st
               /\ ret' = Call("AddDependency", p, q,
                              Wrap(pre.err, <<"performing subpackage preprocessing">>), << >>)
          ELSE /\ pkg' = [pre.st EXCEPT ![p].Dependencies = MapPut(@, pre.st[q].ID, q)]
               /\ ret' = Call("AddDependency", p, q, NilErr, << >>)
    /\ UNCHANGED <<npkg, nfile, file, attached, mutex, thread>>

\* -------------------------------------------------------------- Render
Range(seq) == { seq[i] : i \in 1..Len(seq) }

\* One line of the template: literal text followed by an interpolated value.
TemplateLine(label, value) == <<label>> \o HTMLEscape(value)

BlankLine == << >>

\* {{ if v }}label: v{{ end }}
OptLine(label, value) == IF value = EmptyStr THEN << >> ELSE << TemplateLine(label, value) >>

\* label: {{ if v }}v{{ else }}sentinel{{ end }}
OrElseLine(label, value, sentinel) ==
    << TemplateLine(label, IF value = EmptyStr THEN sentinel ELSE value) >>

\* {{ range $key, $value := .Checksum }}: keys in sorted order
ChecksumLines(m) ==
    (IF "SHA256" \in DOMAIN m /\ m["SHA256"] # EmptyStr
     THEN << <<"PackageChecksum: ", "SHA256", ": ">> \o HTMLEscape(m["SHA256"]) >> ELSE << >>)
    \o
    (IF "SHA512" \in DOMAIN m /\ m["SHA512"] # EmptyStr
     THEN << <<"PackageChecksum: ", "SHA512", ": ">> \o HTMLEscape(m["SHA512"]) >> ELSE << >>)

\* packageTemplate executed on package record r: the lines of the stanza.
packageTemplate(r) ==
    << TemplateLine("##### Package: ", r.Name), BlankLine >>
    \o OptLine("PackageName: ", r.Name)
    \o OptLine("SPDXID: ", r.ID)
    \o ChecksumLines(r.Checksum)
    \o OrElseLine("PackageDownloadLocation: ", r.DownloadLocation, NONE)
    \o << <<"FilesAnalyzed: ", IF r.FilesAnalyzed THEN "true" ELSE "false">> >>
    \o OptLine("PackageVerificationCode: ", r.VerificationCode)
    \o OrElseLine("PackageLicenseConcluded: ", r.LicenseConcluded, NOASSERTION)
    \o OptLine("PackageFileName: ", r.FileName)
    \o [i \in 1..Len(r.LicenseInfoFromFiles) |->
          TemplateLine("PackageLicenseInfoFromFiles: ", r.LicenseInfoFromFiles[i])]
    \o OptLine("PackageVersion: ", r.Version)
    \o OrElseLine("PackageLicenseDeclared: ", r.LicenseDeclared, NOASSERTION)
    \o (IF r.CopyrightText = EmptyStr
        THEN << <<"PackageCopyrightText: ", "NOASSERTION">> >>
        ELSE << <<"PackageCopyrightText: ", "<text>">> \o HTMLEscape(r.CopyrightText),
                <<"</text>">> >>)
    \o << BlankLine >>

\* fmt.Sprintf("Relationship: %s CONTAINS %s\n\n", parent, child), DEPENDS_ON alike
RelationshipLines(parentID, rel, childID) ==
    << <<"Relationship: ">> \o parentID \o <<" ", rel, " ">> \o childID, BlankLine >>

\* File.Render: the file's own fragment and its error.
FileRender(f) ==
    IF file[f].RenderFails
    THEN [frag |-> << >>, err |-> <<"rendering file template">>]
    ELSE [frag |-> << <<"FileName: ">> \o file[f].Name,
                      <<"SPDXID: ">> \o file[f].ID, BlankLine >>,
          err |-> NilErr]

\* Mutant: a tag is collected again for every file that carries it.
CollectTagNoDedup(tagList, tag) ==
    IF tag = EmptyStr THEN tagList ELSE Append(tagList, tag)

\* The tag collection of the range over p.Files.
CollectTag(tagList, tag) ==
    IF tag = EmptyStr \/ tag \in Range(tagList) THEN tagList ELSE Append(tagList, tag)

RECURSIVE VerificationLoop(_, _, _, _, _)
\* for _, f := range p.Files, visiting the keys in the given order, from index i
VerificationLoop(files, order, i, shaList, tagList) ==
    IF i > Len(order) THEN [err |-> NilErr, shaList |-> shaList, tagList |-> tagList]
    ELSE LET f == files[order[i]]
         IN IF file[f].ChecksumNil
            THEN [err |-> <<"unable to render package, file has no checksums">>,
                  shaList |-> shaList, tagList |-> tagList]
            ELSE IF "SHA1" \notin DOMAIN file[f].Checksum
            THEN [err |-> <<"unable to render package, files were analyzed but some do not have sha1 checksum">>,
                  shaList |-> shaList, tagList |-> tagList]
            ELSE VerificationLoop(files, order, i + 1,
                                  Append(shaList, file[f].Checksum["SHA1"]),
                                  CollectTag(tagList, file[f].LicenseInfoInFile))

IsRealTag(tag) == tag # NONE /\ tag # NOASSERTION

\* fmt.Sprintf("%x", sha1(strings.Join(sorted shaList, "")))
VerificationCodeOf(shaList) == Sha1Hex(JoinStrings(SortStrings(shaList)))

\* Mutant: no NONE entry when no tag was collected.
TagsToAppendNoFallback(tagList) == SelectSeq(tagList, IsRealTag)

\* The tags Render appends to p.LicenseInfoFromFiles
TagsToAppend(tagList) ==
    SelectSeq(tagList, IsRealTag) \o (IF Len(tagList) = 0 THEN <<NONE>> ELSE << >>)

\* Mutant: the check for a package without files is missing.
VerificationBlockNoEmptyCheck(r, order) ==
    IF ~r.FilesAnalyzed THEN [err |-> NilErr, rec |-> r]
    ELSE LET v == VerificationLoop(r.Files, order, 1, << >>, << >>)
         IN IF v.err # NilErr THEN [err |-> v.err, rec |-> r]
            ELSE [err |-> NilErr,
                  rec |-> [r EXCEPT !.VerificationCode = VerificationCodeOf(v.shaList),
                                    !.LicenseInfoFromFiles = @ \o TagsToAppend(v.tagList)]]

\* Mutant: a VerificationCode that is already set is kept.
VerificationBlockKeepsCode(r, order) ==
    IF ~r.FilesAnalyzed THEN [err |-> NilErr, rec |-> r]
    ELSE IF Cardinality(DOMAIN r.Files) = 0
    THEN [err |-> <<"unable to get package verification code, package has no files">>,
          rec |-> r]
    ELSE LET v == VerificationLoop(r.Files, order, 1, << >>, << >>)
         IN IF v.err # NilErr THEN [err |-> v.err, rec |-> r]
            ELSE [err |-> NilErr,
                  rec |-> [r EXCEPT !.VerificationCode =
                                       IF @ = EmptyStr THEN VerificationCodeOf(v.shaList) ELSE @,
                                    !.LicenseInfoFromFiles = @ \o TagsToAppend(v.tagList)]]

\* The if p.FilesAnalyzed block of Render on package record r, the range over
\* r.Files visiting the keys in the given order: the error and the record after it.
VerificationBlock(r, order) ==
    IF ~r.FilesAnalyzed THEN [err |-> NilErr, rec |-> r]
    ELSE IF Cardinality(DOMAIN r.Files) = 0
    THEN [err |-> <<"unable to get package verification code, package has no files">>,
          rec |-> r]
    ELSE LET v == VerificationLoop(r.Files, order, 1, << >>, << >>)
         IN IF v.err # NilErr THEN [err |-> v.err, rec |-> r]
            ELSE [err |-> NilErr,
                  rec |-> [r EXCEPT !.VerificationCode = VerificationCodeOf(v.shaList),
                                    !.LicenseInfoFromFiles = @ \o TagsToAppend(v.tagList)]]

RECURSIVE RenderFiles(_, _, _, _)

\* Mutant: the Relationship line of a file is written before the file's fragment.
RenderFilesRelationshipFirst(r, order, i, frag) ==
    IF i > Len(order) THEN [frag |-> frag, err |-> NilErr]
    ELSE LET f == r.Files[order[i]]
             fr == FileRender(f)
         IN IF fr.err # NilErr
            THEN [frag |-> << >>, err |-> Wrap(fr.err, <<"rendering file ">> \o file[f].Name)]
            ELSE RenderFiles(r, order, i + 1,
                             frag \o RelationshipLines(r.ID, "CONTAINS", file[f].ID) \o fr.frag)

\* for _, f := range p.Files { f.Render(); Relationship line }
RenderFiles(r, order, i, frag) ==
    IF i > Len(order) THEN [frag |-> frag, err |-> NilErr]
    ELSE LET f == r.Files[order[i]]
             fr == FileRender(f)
         IN IF fr.err # NilErr
            THEN [frag |-> << >>, err |-> Wrap(fr.err, <<"rendering file ">> \o file[f].Name)]
            ELSE RenderFiles(r, order, i + 1,
                             frag \o fr.frag \o RelationshipLines(r.ID, "CONTAINS", file[f].ID))

Outcome(st, frag, err) == [st |-> st, frag |-> frag, err |-> err]

RECURSIVE RenderOutcomes(_, _, _)
RECURSIVE RenderChildren(_, _, _, _, _, _, _, _)

\* Mutant: the error of a child's Render is dropped and the loop goes on.
RenderChildrenIgnoreErr(p, rel, m, order, i, st, frag, stack) ==
    IF i > Len(order) THEN { Outcome(st, frag, NilErr) }
    ELSE LET q == m[order[i]]
         IN UNION { RenderChildren(p, rel, m, order, i + 1, o.st,
                                   frag \o o.frag
                                        \o RelationshipLines(o.st[p].ID, rel, o.st[q].ID),
                                   stack)
                  : o \in RenderOutcomes(q, st, stack) }

\* for _, pkg := range m { pkg.Render(); Relationship line }: the outcomes of the
\* loop over map m of package p from index i of the visiting order.
RenderChildren(p, rel, m, order, i, st, frag, stack) ==
    IF i > Len(order) THEN { Outcome(st, frag, NilErr) }
    ELSE LET q == m[order[i]]
         IN UNION { IF o.err # NilErr
                    THEN { Outcome(o.st, << >>, Wrap(o.err, <<"rendering pkg ">> \o st[q].Name)) }
                    ELSE RenderChildren(p, rel, m, order, i + 1, o.st,
                                        frag \o o.frag
                                             \o RelationshipLines(o.st[p].ID, rel, o.st[q].ID),
                                        stack)
                  : o \in RenderOutcomes(q, st, stack) }

\* p.Render() on the package table st: every (table, fragment, error) the call
\* can return, over the orders in which the maps are ranged.  stack holds the
\* packages whose Render is in progress; a call that re-enters one of them
\* does not return.
RenderOutcomes(p, st, stack) ==
    IF p \in stack THEN {}
    ELSE UNION {
      LET v == VerificationBlock(st[p], o1)
      IN IF v.err # NilErr THEN { Outcome(st, << >>, v.err) }
         ELSE LET st1 == [st EXCEPT ![p] = v.rec]
                  frag0 == packageTemplate(v.rec)
              IN UNION {
                   LET fr == RenderFiles(v.rec, o2, 1, frag0)
                   IN IF fr.err # NilErr THEN { Outcome(st1, fr.frag, fr.err) }
                      ELSE UNION {
                             UNION { IF a.err # NilErr THEN { a }
                                     ELSE UNION { RenderChildren(p, "DEPENDS_ON", v.rec.Dependencies,
                                                                 o4, 1, a.st, a.frag, stack \cup {p})
                                                  : o4 \in Perms(DOMAIN v.rec.Dependencies) }
                                   : a \in RenderChildren(p, "CONTAINS", v.rec.Packages,
                                                          o3, 1, st1, fr.frag, stack \cup {p}) }
                             : o3 \in Perms(DOMAIN v.rec.Packages) }
                   : o2 \in Perms(DOMAIN v.rec.Files) }
      : o1 \in Perms(DOMAIN st[p].Files) }

Render(p) ==
    /\ p \in Live
    /\ \A q \in Live : Len(pkg[q].LicenseInfoFromFiles) < MaxTags
    /\ \E o \in RenderOutcomes(p, pkg, {}) :
          /\ pkg' = o.st
          /\ ret' = Call("Render", p, 0, o.err, o.frag)
    /\ UNCHANGED <<npkg, nfile, file, attached, mutex, thread>>

\* ------------------------------------------------------ specifications
\* The caller's inputs.  A specification names, for the k-th package (file)
\* the caller constructs, the set of field values it is drawn from; past the
\* end of the list the last set is used again.
PkgIn(name, id, analyzed, concluded, declared) ==
    [Name |-> name, ID |-> id, FilesAnalyzed |-> analyzed,
     LicenseConcluded |-> concluded, LicenseDeclared |-> declared]

FileIn(name, id, sha1, license) ==
    [Name |-> name, ID |-> id,
     Checksum |-> [k \in {"SHA1"} |-> sha1], ChecksumNil |-> FALSE,
     LicenseInfoInFile |-> license, RenderFails |-> FALSE]

\* A file whose Checksum map is nil, and one whose map has no SHA1 entry.
FileInNoChecksum(name) ==
    [FileIn(name, EmptyStr, EmptyStr, EmptyStr) EXCEPT !.Checksum = EmptyMap, !.ChecksumNil = TRUE]

FileInNoSha1(name) ==
    [FileIn(name, EmptyStr, EmptyStr, EmptyStr) EXCEPT !.Checksum = [k \in {"SHA256"} |-> <<"0", "1">>]]

\* A file whose own Render returns an error.
FileInRenderFails(name) ==
    [FileIn(name, EmptyStr, <<"a">>, EmptyStr) EXCEPT !.RenderFails = TRUE]

Slot(slots, k) == IF k <= Len(slots) THEN slots[k] ELSE slots[Len(slots)]

MIT == <<"MIT">>
GPLPlus == <<"GPL", "+">>

\* Spec: packages without children; file names, IDs, checksums and tags vary.
PkgSlots ==
    << { PkgIn(n, EmptyStr, a, l, EmptyStr) : n \in {EmptyStr, <<"a">>}, a \in BOOLEAN, l \in {EmptyStr, MIT} },
       { PkgIn(<<"a">>, EmptyStr, TRUE, EmptyStr, MIT) } >>

FileSlots ==
    << { FileIn(<<"m">>, EmptyStr, <<"a">>, EmptyStr),
         FileIn(<<"m">>, EmptyStr, <<"b">>, MIT),
         FileIn(<<"n">>, EmptyStr, <<"b">>, EmptyStr),
         FileIn(<<"n">>, EmptyStr, <<"a", "b">>, NONE),
         FileIn(EmptyStr, EmptyStr, <<"a">>, EmptyStr),
         FileInNoChecksum(<<"m">>),
         FileInNoSha1(<<"m">>),
         FileInRenderFails(<<"n">>) },
       { FileIn(<<"m">>, EmptyStr, <<"a">>, EmptyStr),
         FileIn(<<"n">>, EmptyStr, <<"b">>, MIT),
         FileIn(<<"n">>, EmptyStr, <<"b">>, EmptyStr),
         FileIn(<<"n">>, EmptyStr, <<"a", "b">>, NOASSERTION),
         FileIn(EmptyStr, <<"F">>, <<"a">>, GPLPlus),
         FileIn(<<"n">>, <<"F">>, <<"a">>, EmptyStr),
         FileInNoChecksum(<<"m">>),
         FileInNoSha1(<<"m">>) } >>

Next ==
    \/ \E in \in Slot(PkgSlots, npkg + 1) : npkg < NumFlatPkgs /\ NewPackage(in)
    \/ \E in \in Slot(FileSlots, nfile + 1) : NewFile(in)
    \/ \E p \in PkgRefs, f \in FileRefs : AddFile(p, f)
    \/ \E p \in PkgRefs : Render(p)

Spec == Init /\ [][Next]_vars

\* SpecTree: sub-packages and dependencies; package names and IDs vary.
PkgSlotsTree ==
    << { PkgIn(EmptyStr, EmptyStr, FALSE, EmptyStr, EmptyStr),
         PkgIn(<<"a">>, EmptyStr, FALSE, EmptyStr, EmptyStr),
         PkgIn(<<"b", "!">>, EmptyStr, FALSE, EmptyStr, EmptyStr),
         PkgIn(<<"b", "!">>, PkgPrefix \o <<"a">>, FALSE, EmptyStr, EmptyStr) },
       { PkgIn(EmptyStr, EmptyStr, FALSE, EmptyStr, EmptyStr),
         PkgIn(<<"a">>, EmptyStr, FALSE, EmptyStr, EmptyStr),
         PkgIn(<<"b", "!">>, EmptyStr, FALSE, EmptyStr, EmptyStr),
         PkgIn(<<"b", "!">>, PkgPrefix \o <<"a">>, FALSE, EmptyStr, EmptyStr) },
       { PkgIn(<<"!">>, EmptyStr, FALSE, EmptyStr, EmptyStr),
         PkgIn(<<"a">>, EmptyStr, FALSE, EmptyStr, EmptyStr),
         PkgIn(<<"b", "!">>, EmptyStr, FALSE, EmptyStr, EmptyStr),
         PkgIn(<<"b", "!">>, PkgPrefix \o <<"a">>, FALSE, EmptyStr, EmptyStr) } >>

NextTree ==
    \/ \E in \in Slot(PkgSlotsTree, npkg + 1) : NewPackage(in)
    \/ \E p \in PkgRefs, q \in PkgRefs : AddPackage(p, q)
    \/ \E p \in PkgRefs, q \in PkgRefs : AddDependency(p, q)

SpecTree == Init /\ [][NextTree]_vars

\* SpecNested: a tree of packages with files, rendered recursively.
PkgSlotsNested ==
    << { PkgIn(<<"a">>, EmptyStr, a, EmptyStr, EmptyStr) : a \in BOOLEAN },
       { PkgIn(<<"b">>, EmptyStr, FALSE, EmptyStr, EmptyStr) },
       { PkgIn(<<"n">>, EmptyStr, TRUE, EmptyStr, EmptyStr) } >>

FileSlotsNested ==
    << { FileIn(<<"m">>, EmptyStr, <<"a">>, MIT), FileInRenderFails(<<"m">>) },
       { FileInNoChecksum(<<"n">>), FileIn(<<"m">>, EmptyStr, <<"b">>, GPLPlus) } >>

NextNested ==
    \/ \E in \in Slot(PkgSlotsNested, npkg + 1) : NewPackage(in)
    \/ \E in \in Slot(FileSlotsNested, nfile + 1) : NewFile(in)
    \/ \E p \in PkgRefs, f \in FileRefs : AddFile(p, f)
    \/ \E p \in PkgRefs, q \in PkgRefs : AddPackage(p, q)
    \/ \E p \in PkgRefs, q \in PkgRefs : AddDependency(p, q)
    \/ \E p \in PkgRefs : Render(p)

SpecNested == Init /\ [][NextNested]_vars

\* ------------------------------------------- AddFile, statement by statement
\* Goroutine t begins the call p.AddFile(f).
AddFileBegin(t, p, f) ==
    /\ thread[t].pc = "idle"
    /\ p \in Live /\ f \in LiveFiles
    /\ thread' = [thread EXCEPT ![t] =
                    [IdleThread EXCEPT !.pc = "Lock", !.op = "AddFile", !.recv = p, !.arg = f,
                                       !.after = { u \in Threads : thread[u].pc = "returned" }]]
    /\ UNCHANGED <<npkg, nfile, pkg, file, attached, ret, mutex>>

\* Mutant: the mutex is taken without waiting for it to be free.
AddFileLockNoWait(t) ==
    /\ thread[t].pc = "Lock"
    /\ mutex' = [mutex EXCEPT ![thread[t].recv] = t]
    /\ thread' = [thread EXCEPT ![t].pc = "Synthesize"]
    /\ UNCHANGED <<npkg, nfile, pkg, file, attached, ret>>

\* p.Lock(): the goroutine waits until no goroutine holds the mutex of p.
AddFileLock(t) ==
    /\ thread[t].pc = "Lock"
    /\ mutex[thread[t].recv] = 0
    /\ mutex' = [mutex EXCEPT ![thread[t].recv] = t]
    /\ thread' = [thread EXCEPT ![t].pc = "Synthesize"]
    /\ UNCHANGED <<npkg, nfile, pkg, file, attached, ret>>

\* The creation of p.Files and the if file.ID == "" block: the ID is built, or
\* the call is about to return an error.
AddFileSynthesize(t) ==
    /\ thread[t].pc = "Synthesize"
    /\ LET p == thread[t].recv
           f == thread[t].arg
           err == AddFileErr(p, f)
       IN /\ file' = [file EXCEPT ![f].ID = AddFileID(p, f)]
          /\ thread' = [thread EXCEPT ![t].err = err,
                                      ![t].pc = IF err = NilErr THEN "Insert" ELSE "Unlock"]
    /\ UNCHANGED <<npkg, nfile, pkg, attached, ret, mutex>>

\* p.Files[file.ID] = file
AddFileInsert(t) ==
    /\ thread[t].pc = "Insert" /\ thread[t].op = "AddFile"
    /\ pkg' = [pkg EXCEPT ![thread[t].recv].Files = MapPut(@, file[thread[t].arg].ID, thread[t].arg)]
    /\ thread' = [thread EXCEPT ![t].pc = "Unlock"]
    /\ UNCHANGED <<npkg, nfile, file, attached, ret, mutex>>

\* Mutant: p.Unlock() is the last statement of the function instead of deferred,
\* so a return with an error leaves the mutex locked.
AddFileUnlockOnSuccess(t) ==
    /\ thread[t].pc = "Unlock"
    /\ mutex' = [mutex EXCEPT ![thread[t].recv] = IF thread[t].err = NilErr THEN 0 ELSE @]
    /\ thread' = [thread EXCEPT ![t].pc = "returned"]
    /\ attached' = [attached EXCEPT ![thread[t].recv] =
                      IF thread[t].err = NilErr THEN @ \cup {thread[t].arg} ELSE @]
    /\ ret' = Call("AddFile", thread[t].recv, thread[t].arg, thread[t].err, << >>)
    /\ UNCHANGED <<npkg, nfile, pkg, file>>

\* The return: the deferred p.Unlock() runs on every path.
AddFileUnlock(t) ==
    /\ thread[t].pc = "Unlock"
    /\ mutex' = [mutex EXCEPT ![thread[t].recv] = 0]
    /\ thread' = [thread EXCEPT ![t].pc = "returned"]
    /\ attached' = [attached EXCEPT ![thread[t].recv] =
                      IF thread[t].err = NilErr THEN @ \cup {thread[t].arg} ELSE @]
    /\ ret' = Call("AddFile", thread[t].recv, thread[t].arg, thread[t].err, << >>)
    /\ UNCHANGED <<npkg, nfile, pkg, file>>

\* SpecLock: goroutines that each call AddFile once on the same package.
PkgSlotsLock ==
    << { PkgIn(n, EmptyStr, FALSE, EmptyStr, EmptyStr) : n \in {EmptyStr, <<"a">>} } >>

FileSlotsLock ==
    << { FileIn(<<"m">>, EmptyStr, <<"a">>, EmptyStr),
         FileIn(EmptyStr, EmptyStr, <<"a">>, EmptyStr) },
       { FileIn(<<"m">>, EmptyStr, <<"b">>, EmptyStr),
         FileIn(<<"n">>, <<"F">>, <<"b">>, EmptyStr) } >>

NextLock ==
    \/ \E in \in Slot(PkgSlotsLock, npkg + 1) : npkg < 1 /\ NewPackage(in)
    \/ \E in \in Slot(FileSlotsLock, nfile + 1) : NewFile(in)
    \/ \E t \in Threads, p \in PkgRefs, f \in FileRefs : AddFileBegin(t, p, f)
    \/ \E t \in Threads : AddFileLock(t)
    \/ \E t \in Threads : AddFileSynthesize(t)
    \/ \E t \in Threads : AddFileInsert(t)
    \/ \E t \in Threads : AddFileUnlock(t)

SpecLock == Init /\ [][NextLock]_vars

\* SpecLockFair: a goroutine that can take its next step takes it; one that waits
\* for the mutex gets it once it stays free.
SpecLockFair ==
    /\ Init /\ [][NextLock]_vars
    /\ \A t \in Threads :
          /\ WF_vars(AddFileLock(t))
          /\ WF_vars(AddFileSynthesize(t))
          /\ WF_vars(AddFileInsert(t))
          /\ WF_vars(AddFileUnlock(t))

\* ------------------- AddPackage and AddDependency, statement by statement
\* No lock is taken: the statements of two calls interleave.  A statement reads
\* and writes the fields as they are when it runs.

\* Goroutine t begins the call p.AddPackage(q) or p.AddDependency(q).
AttachBegin(t, op, p, q) ==
    /\ thread[t].pc = "idle"
    /\ p \in Live /\ q \in Live
    /\ thread' = [thread EXCEPT ![t] =
                    [IdleThread EXCEPT !.pc = "NilCheck", !.op = op, !.recv = p, !.arg = q,
                                       !.after = { u \in Threads : thread[u].pc = "returned" }]]
    /\ UNCHANGED <<npkg, nfile, pkg, file, attached, ret, mutex>>

\* The map that op writes is nil: no goroutine has assigned a map to the field
\* (the maps of a new package are nil and only these calls assign them).
IsNilMap(p, op) ==
    \A u \in Threads : ~(thread[u].op = op /\ thread[u].recv = p /\ thread[u].created)

\* if p.Packages == nil (if p.Dependencies == nil)
AttachNilCheck(t) ==
    /\ thread[t].pc = "NilCheck"
    /\ LET nil == IsNilMap(thread[t].recv, thread[t].op)
       IN thread' = [thread EXCEPT ![t].sawNil = nil,
                                   ![t].pc = IF nil THEN "Create" ELSE "Derive"]
    /\ UNCHANGED <<npkg, nfile, pkg, file, attached, ret, mutex>>

\* p.Packages = map[string]*Package{} (p.Dependencies = ...): the field gets a new,
\* empty map, whatever it held.
AttachCreate(t) ==
    /\ thread[t].pc = "Create"
    /\ pkg' = [pkg EXCEPT ![thread[t].recv] =
                 IF thread[t].op = "AddPackage" THEN [@ EXCEPT !.Packages = EmptyMap]
                                                ELSE [@ EXCEPT !.Dependencies = EmptyMap]]
    /\ thread' = [thread EXCEPT ![t].created = TRUE, ![t].pc = "Derive"]
    /\ UNCHANGED <<npkg, nfile, file, attached, ret, mutex>>

\* The return of a call with the error of preProcessSubPackage.
AttachFail(t, err) ==
    /\ thread' = [thread EXCEPT ![t].pc = "returned",
                                ![t].err = Wrap(err, <<"performing subpackage preprocessing">>)]
    /\ ret' = Call(thread[t].op, thread[t].recv, thread[t].arg,
                   Wrap(err, <<"performing subpackage preprocessing">>), << >>)

\* preProcessSubPackage, the two if pkg.ID == "" blocks
AttachDerive(t) ==
    /\ thread[t].pc = "Derive"
    /\ pkg' = [pkg EXCEPT ![thread[t].arg].ID = DerivedID(pkg, thread[t].arg)]
    /\ IF DerivedID(pkg, thread[t].arg) = EmptyStr
       THEN AttachFail(t, <<"package name is needed to add a new package">>)
       ELSE /\ thread' = [thread EXCEPT ![t].pc = "LookupPackages"]
            /\ UNCHANGED ret
    /\ UNCHANGED <<npkg, nfile, file, attached, mutex>>

\* if _, ok := p.Packages[pkg.ID]; ok
AttachLookupPackages(t) ==
    /\ thread[t].pc = "LookupPackages"
    /\ LET id == pkg[thread[t].arg].ID
       IN IF id \in DOMAIN pkg[thread[t].recv].Packages
          THEN AttachFail(t, <<"a package named ">> \o id \o <<" already exists as a subpackage">>)
          ELSE /\ thread' = [thread EXCEPT ![t].pc = "LookupDependencies"]
               /\ UNCHANGED ret
    /\ UNCHANGED <<npkg, nfile, pkg, file, attached, mutex>>

\* Mutant: the lookup in p.Dependencies never finds the ID.
AttachLookupDependenciesSkipped(t) ==
    /\ thread[t].pc = "LookupDependencies"
    /\ thread' = [thread EXCEPT ![t].pc = "Insert"]
    /\ UNCHANGED <<npkg, nfile, pkg, file, attached, ret, mutex>>

\* if _, ok := p.Dependencies[pkg.ID]; ok
AttachLookupDependencies(t) ==
    /\ thread[t].pc = "LookupDependencies"
    /\ LET id == pkg[thread[t].arg].ID
       IN IF id \in DOMAIN pkg[thread[t].recv].Dependencies
          THEN AttachFail(t, <<"a package named ">> \o id \o <<" already exists as a dependency">>)
          ELSE /\ thread' = [thread EXCEPT ![t].pc = "Insert"]
               /\ UNCHANGED ret
    /\ UNCHANGED <<npkg, nfile, pkg, file, attached, mutex>>

\* p.Packages[pkg.ID] = pkg (p.Dependencies[pkg.ID] = pkg); return nil
AttachInsert(t) ==
    /\ thread[t].pc = "Insert" /\ thread[t].op \in {"AddPackage", "AddDependency"}
    /\ LET q == thread[t].arg
       IN pkg' = [pkg EXCEPT ![thread[t].recv] =
                    IF thread[t].op = "AddPackage"
                    THEN [@ EXCEPT !.Packages = MapPut(@, pkg[q].ID, q)]
                    ELSE [@ EXCEPT !.Dependencies = MapPut(@, pkg[q].ID, q)]]
    /\ thread' = [thread EXCEPT ![t].pc = "returned"]
    /\ ret' = Call(thread[t].op, thread[t].recv, thread[t].arg, NilErr, << >>)
    /\ UNCHANGED <<npkg, nfile, file, attached, mutex>>

\* SpecRace: goroutines that each call AddPackage or AddDependency once on the
\* first package.
PkgSlotsRace ==
    << { PkgIn(<<"a">>, EmptyStr, FALSE, EmptyStr, EmptyStr) },
       { PkgIn(<<"b", "!">>, EmptyStr, FALSE, EmptyStr, EmptyStr),
         PkgIn(EmptyStr, EmptyStr, FALSE, EmptyStr, EmptyStr) },
       { PkgIn(<<"b">>, EmptyStr, FALSE, EmptyStr, EmptyStr),
         PkgIn(<<"n">>, PkgPrefix \o <<"a">>, FALSE, EmptyStr, EmptyStr) } >>

NextRace ==
    \/ \E in \in Slot(PkgSlotsRace, npkg + 1) : NewPackage(in)
    \/ \E t \in Threads, op \in {"AddPackage", "AddDependency"}, q \in PkgRefs :
          AttachBegin(t, op, 1, q)
    \/ \E t \in Threads : AttachNilCheck(t)
    \/ \E t \in Threads : AttachCreate(t)
    \/ \E t \in Threads : AttachDerive(t)
    \/ \E t \in Threads : AttachLookupPackages(t)
    \/ \E t \in Threads : AttachLookupDependencies(t)
    \/ \E t \in Threads : AttachInsert(t)

SpecRace == Init /\ [][NextRace]_vars

\* ---------------------------------------------------------------- claims
\* The last call was p.Render() and returned (a fragment, nil).
RenderedOK(p) == ret.op = "Render" /\ ret.recv = p /\ ret.err = NilErr

HasSha1(f) == ~file[f].ChecksumNil /\ "SHA1" \in DOMAIN file[f].Checksum

IsSorted(list) == \A i \in 1..(Len(list) - 1) : ~StrLess(list[i + 1], list[i])

\* The SHA1 values of the files of F, one per file, in every order.
Sha1Lists(F) == { [i \in 1..Len(o) |-> file[o[i]].Checksum["SHA1"]] : o \in Perms(F) }

\* The digest of the lexicographically sorted concatenation of the SHA1 values of F.
SortedDigest(F) == Sha1Hex(JoinStrings(CHOOSE l \in Sha1Lists(F) : IsSorted(l)))

DistinctIDs(F) == \A f \in F, g \in F : f # g => file[f].ID # file[g].ID

\* C1 as stated: after a successful Render of a package with FilesAnalyzed = true,
\* VerificationCode is the digest of the sorted SHA1 values of the files that were
\* attached with AddFile, whatever the order of the AddFile calls.
C1_AnyAttachedSet ==
    \A p \in PkgRefs :
        (RenderedOK(p) /\ pkg[p].FilesAnalyzed /\ attached[p] # {}
           /\ \A f \in attached[p] : HasSha1(f))
        => pkg[p].VerificationCode = SortedDigest(attached[p])

\* C1 amended: the same, for attached files whose IDs are pairwise distinct (a file
\* attached under the ID of another replaces it, so the later call wins).
C1_OrderIndependent ==
    \A p \in PkgRefs :
        (RenderedOK(p) /\ pkg[p].FilesAnalyzed /\ attached[p] # {}
           /\ (\A f \in attached[p] : HasSha1(f)) /\ DistinctIDs(attached[p]))
        => pkg[p].VerificationCode = SortedDigest(attached[p])

\* C1 witness: a successful Render over two attached files with distinct IDs whose
\* SHA1 values differ.
C1_Witness ==
    \E p \in PkgRefs :
        /\ RenderedOK(p) /\ pkg[p].FilesAnalyzed
        /\ Cardinality(attached[p]) = 2 /\ DistinctIDs(attached[p])
        /\ \A f \in attached[p] : HasSha1(f)
        /\ \E f \in attached[p], g \in attached[p] :
              StrLess(file[f].Checksum["SHA1"], file[g].Checksum["SHA1"])

FilesOf(p) == { pkg[p].Files[id] : id \in DOMAIN pkg[p].Files }

AllFilesUntagged(p) == \A f \in FilesOf(p) : file[f].LicenseInfoInFile = EmptyStr

NoneLine == <<"PackageLicenseInfoFromFiles: ", "NONE">>

IsLicenseInfoLine(line) == line # << >> /\ line[1] = "PackageLicenseInfoFromFiles: "

\* The NOASSERTION lines of a package with empty LicenseConcluded / LicenseDeclared.
NoAssertionLines(p) ==
    /\ pkg[p].LicenseConcluded = EmptyStr
          => <<"PackageLicenseConcluded: ", "NOASSERTION">> \in Range(ret.frag)
    /\ pkg[p].LicenseDeclared = EmptyStr
          => <<"PackageLicenseDeclared: ", "NOASSERTION">> \in Range(ret.frag)

\* C6 as stated: the fragment a Render returns for a package with FilesAnalyzed =
\* false, or whose files all have an empty LicenseInfoInFile, has the line
\* PackageLicenseInfoFromFiles: NONE, and the one for a package with empty
\* LicenseConcluded / LicenseDeclared has the NOASSERTION lines.
C6_NoneWheneverUntagged ==
    \A p \in PkgRefs :
        RenderedOK(p)
        => /\ (~pkg[p].FilesAnalyzed \/ AllFilesUntagged(p)) => NoneLine \in Range(ret.frag)
           /\ NoAssertionLines(p)

\* C6 amended: a successful Render of a package with FilesAnalyzed = true whose
\* files all have an empty LicenseInfoInFile returns a fragment with the line
\* PackageLicenseInfoFromFiles: NONE; with FilesAnalyzed = false the stanza has one
\* such line per entry already in LicenseInfoFromFiles and no other (none when it is
\* empty); the NOASSERTION lines are in every successfully rendered fragment.
C6_SentinelFallback ==
    \A p \in PkgRefs :
        RenderedOK(p)
        => /\ (pkg[p].FilesAnalyzed /\ AllFilesUntagged(p)) => NoneLine \in Range(ret.frag)
           /\ ~pkg[p].FilesAnalyzed
                 => SelectSeq(ret.frag, IsLicenseInfoLine)
                      = [i \in 1..Len(pkg[p].LicenseInfoFromFiles) |->
                           <<"PackageLicenseInfoFromFiles: ">> \o pkg[p].LicenseInfoFromFiles[i]]
           /\ NoAssertionLines(p)

\* C6 witness: a successful Render of an analyzed package whose two files carry no
\* tag and whose LicenseConcluded is empty.
C6_Witness ==
    \E p \in PkgRefs :
        /\ RenderedOK(p) /\ pkg[p].FilesAnalyzed
        /\ Cardinality(FilesOf(p)) = 2 /\ AllFilesUntagged(p)
        /\ pkg[p].LicenseConcluded = EmptyStr
        /\ NoneLine \in Range(ret.frag)

\* The package has no file, or a file without Checksum map or without SHA1 entry.
CannotVerify(p) == FilesOf(p) = {} \/ \E f \in FilesOf(p) : ~HasSha1(f)

\* C7: a Render of a package with FilesAnalyzed = true that has no file, or a file
\* without checksums or without SHA1, returns an error and the empty fragment and
\* leaves VerificationCode and LicenseInfoFromFiles as they were.
C7_VerificationFailure ==
    [][ \A p \in PkgRefs :
          (ret'.op = "Render" /\ ret'.recv = p /\ pkg[p].FilesAnalyzed /\ CannotVerify(p))
          => /\ ret'.err # NilErr
             /\ ret'.frag = << >>
             /\ pkg'[p].VerificationCode = pkg[p].VerificationCode
             /\ pkg'[p].LicenseInfoFromFiles = pkg[p].LicenseInfoFromFiles ]_vars

\* C7 witness: a failed Render of a package with two files, one of them without
\* SHA1, that keeps the VerificationCode an earlier Render computed.
C7_Witness ==
    \E p \in PkgRefs :
        /\ ret.op = "Render" /\ ret.recv = p /\ ret.err # NilErr /\ ret.frag = << >>
        /\ pkg[p].FilesAnalyzed
        /\ Cardinality(FilesOf(p)) = 2
        /\ \E f \in FilesOf(p) : HasSha1(f)
        /\ \E f \in FilesOf(p) : ~HasSha1(f)
        /\ pkg[p].VerificationCode # EmptyStr

\* The ID the specification gives a file without ID: the file prefix and the hex
\* digest of <package name>:<file name>.
SynthesizedFileID(pkgName, fileName) ==
    <<"SPDXRef-File-", "sha1(">> \o pkgName \o <<":">> \o fileName \o <<")">>

\* C9: an AddFile that succeeds on a file without ID gives it the ID that is a
\* function of the package name and the file name; no step changes a non-empty
\* file ID; and an AddFile of a file that is already in Files under its ID keeps
\* the number of entries of Files.
C9_FileIDSynthesis ==
    [][ /\ \A p \in PkgRefs, f \in FileRefs :
             (ret'.op = "AddFile" /\ ret'.recv = p /\ ret'.arg = f /\ ret'.err = NilErr
                /\ file[f].ID = EmptyStr)
             => file'[f].ID = SynthesizedFileID(pkg[p].Name, file[f].Name)
        /\ \A f \in FileRefs : file[f].ID # EmptyStr => file'[f].ID = file[f].ID
        /\ \A p \in PkgRefs, f \in FileRefs :
             (ret'.op = "AddFile" /\ ret'.recv = p /\ ret'.arg = f
                /\ file[f].ID \in DOMAIN pkg[p].Files /\ pkg[p].Files[file[f].ID] = f)
             => /\ ret'.err = NilErr
                /\ DOMAIN pkg'[p].Files = DOMAIN pkg[p].Files ]_vars

\* C9 witness: two files of the same name, built without ID, attached to two
\* packages of the same name, have the same ID; the last call attached one of them
\* a second time.
C9_Witness ==
    \E f \in FileRefs, g \in FileRefs :
        /\ f # g /\ file[f].Name = file[g].Name
        /\ f \in attached[1] /\ g \in attached[2] /\ pkg[1].Name = pkg[2].Name
        /\ file[f].ID = SynthesizedFileID(pkg[1].Name, file[f].Name)
        /\ file[g].ID = file[f].ID
        /\ ret.op = "AddFile" /\ ret.recv = 2 /\ ret.arg = g /\ ret.err = NilErr
        /\ Cardinality(DOMAIN pkg[2].Files) = 1
        /\ g \notin FilesOf(1)

\* C10: a successful Render of a package with a Name, no ID, FilesAnalyzed = true
\* and one file returns a fragment with the line Relationship: <package prefix and
\* stripped Name> CONTAINS <file ID>, and no relationship line of a rendered
\* fragment has an empty parent identifier.
C10_RelationshipParent ==
    \A p \in PkgRefs :
        RenderedOK(p)
        => /\ (pkg[p].Name # EmptyStr /\ pkg[p].ID = EmptyStr /\ pkg[p].FilesAnalyzed
                 /\ Cardinality(FilesOf(p)) = 1)
              => \A f \in FilesOf(p) :
                    (<<"Relationship: ", "SPDXRef-Package-">> \o StripName(pkg[p].Name)
                        \o <<" ", "CONTAINS", " ">> \o file[f].ID) \in Range(ret.frag)
           /\ \A i \in 1..Len(ret.frag) :
                 (ret.frag[i] # << >> /\ ret.frag[i][1] = "Relationship: ")
                 => ret.frag[i][2] # " "

\* The sub-packages and dependencies of p.
Children(p) ==
    { pkg[p].Packages[id] : id \in DOMAIN pkg[p].Packages }
    \cup { pkg[p].Dependencies[id] : id \in DOMAIN pkg[p].Dependencies }

RECURSIVE ReachFrom(_)
\* The packages of S and their descendants.
ReachFrom(S) ==
    LET T == S \cup UNION { Children(q) : q \in S }
    IN IF T = S THEN S ELSE ReachFrom(T)

\* The ID a package has or, failing that, gets from its Name ("": neither).
ExpectedID(q) ==
    IF pkg[q].ID # EmptyStr THEN pkg[q].ID
    ELSE IF StripName(pkg[q].Name) # EmptyStr
         THEN <<"SPDXRef-Package-">> \o StripName(pkg[q].Name)
    ELSE EmptyStr

\* The step is p.AddPackage(q) and q's ID is a key of p.Dependencies, or it is
\* p.AddDependency(q) and q's ID is a key of p.Packages.
CrossConflictStep(p, q) ==
    /\ ret'.recv = p /\ ret'.arg = q
    /\ \/ ret'.op = "AddPackage" /\ ExpectedID(q) \in DOMAIN pkg[p].Dependencies
       \/ ret'.op = "AddDependency" /\ ExpectedID(q) \in DOMAIN pkg[p].Packages

\* C2 as stated: such a call returns an error and leaves the parent's Packages and
\* Dependencies and the package passed in as they were.
C2_ConflictChangesNothing ==
    [][ \A p \in PkgRefs, q \in PkgRefs :
          CrossConflictStep(p, q)
          => /\ ret'.err # NilErr
             /\ pkg'[p].Packages = pkg[p].Packages
             /\ pkg'[p].Dependencies = pkg[p].Dependencies
             /\ pkg'[q] = pkg[q] ]_vars

\* C2 amended: such a call returns an error and leaves the parent's Packages and
\* Dependencies as they were; the package passed in is as it was except that an
\* empty ID has been replaced by the ID derived from its Name.
C2_ConflictKeepsTree ==
    [][ \A p \in PkgRefs, q \in PkgRefs :
          CrossConflictStep(p, q)
          => /\ ret'.err # NilErr
             /\ pkg'[p].Packages = pkg[p].Packages
             /\ pkg'[p].Dependencies = pkg[p].Dependencies
             /\ pkg'[q] = [pkg[q] EXCEPT !.ID = ExpectedID(q)]
             /\ \A r \in PkgRefs \ {q} : pkg'[r] = pkg[r] ]_vars

\* C2 witness: AddPackage of a package named "b!", built without ID, has failed
\* because its derived ID is a key of the parent's Dependencies.
C2_Witness ==
    /\ ret.op = "AddPackage" /\ ret.recv \in PkgRefs /\ ret.arg \in PkgRefs
    /\ pkg[ret.arg].Name = <<"b", "!">>
    /\ pkg[ret.arg].ID = <<"SPDXRef-Package-", "b">>
    /\ ret.err = <<"performing subpackage preprocessing", ": ", "a package named ",
                   "SPDXRef-Package-", "b", " already exists as a dependency">>
    /\ pkg[ret.arg].ID \in DOMAIN pkg[ret.recv].Dependencies
    /\ pkg[ret.recv].Dependencies[pkg[ret.arg].ID] # ret.arg
    /\ DOMAIN pkg[ret.recv].Packages = {}

\* C3: in every state reached by AddPackage and AddDependency calls no ID is a key
\* of both maps of a package, and no call replaces or removes an entry of either.
C3_CrossNamespaceUnique ==
    [][ \A p \in PkgRefs :
          /\ DOMAIN pkg'[p].Packages \cap DOMAIN pkg'[p].Dependencies = {}
          /\ \A id \in DOMAIN pkg[p].Packages :
                id \in DOMAIN pkg'[p].Packages /\ pkg'[p].Packages[id] = pkg[p].Packages[id]
          /\ \A id \in DOMAIN pkg[p].Dependencies :
                id \in DOMAIN pkg'[p].Dependencies
                /\ pkg'[p].Dependencies[id] = pkg[p].Dependencies[id] ]_vars

\* C3 witness: a parent with a sub-package and a dependency on which AddDependency
\* of another package with the sub-package's ID has failed, the entry still in place.
C3_Witness ==
    /\ ret.op = "AddDependency" /\ ret.err # NilErr
    /\ ret.recv \in PkgRefs /\ ret.arg \in PkgRefs
    /\ pkg[ret.arg].ID \in DOMAIN pkg[ret.recv].Packages
    /\ pkg[ret.recv].Packages[pkg[ret.arg].ID] # ret.arg
    /\ DOMAIN pkg[ret.recv].Dependencies # {}
    /\ ret.arg \notin Children(ret.recv)

\* The nodes of the tree Render walks from root: packages and their files.
TreePackages(root) == ReachFrom({root})

TreeFiles(root) == UNION { FilesOf(q) : q \in TreePackages(root) }

\* C4: no two distinct nodes of a tree have the same ID.
C4_UniqueIDsInTree ==
    \A root \in PkgRefs :
        /\ \A a \in TreePackages(root), b \in TreePackages(root) :
              a # b => pkg[a].ID # pkg[b].ID
        /\ \A f \in TreeFiles(root), g \in TreeFiles(root) :
              f # g => file[f].ID # file[g].ID
        /\ \A a \in TreePackages(root), f \in TreeFiles(root) : pkg[a].ID # file[f].ID

\* C5: no package is reachable from itself through Packages and Dependencies, and
\* no package is a child of two packages.
C5_TreeShaped ==
    /\ \A p \in PkgRefs : p \notin ReachFrom(Children(p))
    /\ \A q \in PkgRefs : Cardinality({ p \in PkgRefs : q \in Children(p) }) <= 1

\* The Render of q itself fails: its verification code cannot be computed, or the
\* Render of one of its files fails.
OwnFailure(q) ==
    \/ pkg[q].FilesAnalyzed /\ CannotVerify(q)
    \/ \E f \in FilesOf(q) : file[f].RenderFails

\* C8: a Render that returns an error returns the empty fragment, and the Render
\* of a package fails when the Render of the package or of any descendant fails.
C8_FailurePropagates ==
    \A p \in PkgRefs :
        (ret.op = "Render" /\ ret.recv = p)
        => /\ ret.err # NilErr => ret.frag = << >>
           /\ (\E q \in ReachFrom({p}) : OwnFailure(q)) => (ret.err # NilErr /\ ret.frag = << >>)

\* C8 witness: the Render of a root has failed whose only failing package is a
\* grandchild.
C8_Witness ==
    \E p \in PkgRefs, q \in PkgRefs, r \in PkgRefs :
        /\ ret.op = "Render" /\ ret.recv = p /\ ret.err # NilErr /\ ret.frag = << >>
        /\ p # q /\ q # r /\ p # r
        /\ q \in Children(p) /\ r \in Children(q)
        /\ ~OwnFailure(p) /\ ~OwnFailure(q) /\ OwnFailure(r)
        /\ FilesOf(p) # {}

\* The PackageLicenseInfoFromFiles lines of a fragment.
LicenseInfoLines(frag) == SelectSeq(frag, IsLicenseInfoLine)

\* C11: when a successful Render of a package with FilesAnalyzed = true directly
\* follows a successful Render of the same package, VerificationCode and
\* LicenseInfoFromFiles are after it what they were before it, and both calls
\* return the same PackageLicenseInfoFromFiles lines.
C11_RenderIdempotent ==
    [][ \A p \in PkgRefs :
          (RenderedOK(p) /\ pkg[p].FilesAnalyzed
             /\ ret'.op = "Render" /\ ret'.recv = p /\ ret'.err = NilErr)
          => /\ pkg'[p].VerificationCode = pkg[p].VerificationCode
             /\ pkg'[p].LicenseInfoFromFiles = pkg[p].LicenseInfoFromFiles
             /\ LicenseInfoLines(ret'.frag) = LicenseInfoLines(ret.frag) ]_vars

\* The LicenseInfoInFile values of the files in p.Files.
TagsOf(p) == { file[f].LicenseInfoInFile : f \in FilesOf(p) }

NoDuplicates(list) == \A i \in 1..Len(list), j \in 1..Len(list) : list[i] = list[j] => i = j

\* C12: a successful Render of a package with FilesAnalyzed = true and an empty
\* LicenseInfoFromFiles leaves in LicenseInfoFromFiles, once each, the non-empty
\* LicenseInfoInFile values of its files other than NONE and NOASSERTION and
\* nothing else, except that it leaves the single entry NONE when no file has a
\* non-empty LicenseInfoInFile.
C12_TagRollup ==
    [][ \A p \in PkgRefs :
          (ret'.op = "Render" /\ ret'.recv = p /\ ret'.err = NilErr
             /\ pkg[p].FilesAnalyzed /\ pkg[p].LicenseInfoFromFiles = << >>)
          => IF TagsOf(p) \subseteq {EmptyStr}
             THEN pkg'[p].LicenseInfoFromFiles = << <<"NONE">> >>
             ELSE /\ Range(pkg'[p].LicenseInfoFromFiles)
                       = TagsOf(p) \ {EmptyStr, <<"NONE">>, <<"NOASSERTION">>}
                  /\ NoDuplicates(pkg'[p].LicenseInfoFromFiles) ]_vars

\* C12 witness: the first successful Render of a package with two files that
\* carry the same tag has left that tag once.
C12_Witness ==
    \E p \in PkgRefs :
        /\ RenderedOK(p) /\ pkg[p].FilesAnalyzed
        /\ Cardinality(FilesOf(p)) = 2 /\ TagsOf(p) = {MIT}
        /\ pkg[p].LicenseInfoFromFiles = <<MIT>>

\* C13: after every successful Render of a package with FilesAnalyzed = true,
\* VerificationCode is the digest of the sorted SHA1 values of the files that are
\* in Files, whatever an earlier Render left in it.
C13_CodeRecomputed ==
    \A p \in PkgRefs :
        (RenderedOK(p) /\ pkg[p].FilesAnalyzed)
        => pkg[p].VerificationCode = SortedDigest(FilesOf(p))

\* C13 witness: a second successful Render, after the only file of the package
\* (untagged at the first Render) was overwritten by a file with another SHA1.
C13_Witness ==
    \E p \in PkgRefs :
        /\ RenderedOK(p) /\ pkg[p].FilesAnalyzed
        /\ pkg[p].LicenseInfoFromFiles = <<NONE, MIT>>
        /\ Cardinality(attached[p]) = 2 /\ Cardinality(FilesOf(p)) = 1
        /\ \E f \in attached[p] \ FilesOf(p), g \in FilesOf(p) :
              HasSha1(f) /\ file[f].Checksum["SHA1"] # file[g].Checksum["SHA1"]
        /\ pkg[p].VerificationCode = <<"sha1(", "b", ")">>

\* The ID under which AddFile on p stores f ("": there is none, the call fails).
KeyOf(p, f) ==
    IF file[f].ID # EmptyStr THEN file[f].ID
    ELSE IF file[f].Name # EmptyStr /\ pkg[p].Name # EmptyStr
         THEN SynthesizedFileID(pkg[p].Name, file[f].Name)
    ELSE EmptyStr

\* C14: an AddFile of a file whose ID is already a key of Files returns nil, puts
\* the file under that ID, and leaves the keys of Files, the entries under the
\* other IDs, Packages, Dependencies and all other packages as they were.
C14_LastWriteWins ==
    [][ \A p \in PkgRefs, f \in FileRefs :
          (ret'.op = "AddFile" /\ ret'.recv = p /\ ret'.arg = f
             /\ KeyOf(p, f) \in DOMAIN pkg[p].Files)
          => /\ ret'.err = NilErr
             /\ DOMAIN pkg'[p].Files = DOMAIN pkg[p].Files
             /\ pkg'[p].Files[KeyOf(p, f)] = f
             /\ \A id \in DOMAIN pkg[p].Files \ {KeyOf(p, f)} :
                   pkg'[p].Files[id] = pkg[p].Files[id]
             /\ pkg'[p].Packages = pkg[p].Packages
             /\ pkg'[p].Dependencies = pkg[p].Dependencies
             /\ \A q \in PkgRefs \ {p} : pkg'[q] = pkg[q] ]_vars

\* C14 witness: the last AddFile put a file under the ID of another file that had
\* been attached to the package, which has a sub-package.
C14_Witness ==
    \E p \in PkgRefs, f \in FileRefs, g \in FileRefs :
        /\ ret.op = "AddFile" /\ ret.recv = p /\ ret.arg = f /\ ret.err = NilErr
        /\ f # g /\ g \in attached[p] /\ file[g].ID = file[f].ID
        /\ FilesOf(p) = {f}
        /\ DOMAIN pkg[p].Packages # {}

IsMarker(line) ==
    line # << >> /\ line[1] \in {"##### Package: ", "FileName: ", "Relationship: "}

\* The first line of every package stanza and of every file fragment and the
\* Relationship lines of a fragment, in the order of the fragment.
Markers(frag) == SelectSeq(frag, IsMarker)

RelationshipMarker(parentID, rel, childID) ==
    <<"Relationship: ">> \o parentID \o <<" ", rel, " ">> \o childID

RECURSIVE FileMarkers(_, _)
\* The markers of the files of p visited in the given order of their IDs.
FileMarkers(p, order) ==
    IF order = << >> THEN << >>
    ELSE LET f == pkg[p].Files[Head(order)]
         IN << <<"FileName: ">> \o file[f].Name,
               RelationshipMarker(pkg[p].ID, "CONTAINS", file[f].ID) >>
            \o FileMarkers(p, Tail(order))

RECURSIVE PreOrder(_)
RECURSIVE ChildMarkers(_, _, _, _)

\* The marker sequences of the children in map m of p, visited in the given order.
ChildMarkers(p, rel, m, order) ==
    IF order = << >> THEN { << >> }
    ELSE LET q == m[Head(order)]
         IN { x \o << RelationshipMarker(pkg[p].ID, rel, pkg[q].ID) >> \o rest :
                x \in PreOrder(q), rest \in ChildMarkers(p, rel, m, Tail(order)) }

\* The marker sequences of a pre-order walk from p: p, its files, its
\* sub-packages, its dependencies, each map in any order.
PreOrder(p) ==
    { << <<"##### Package: ">> \o pkg[p].Name >> \o FileMarkers(p, o2) \o subs \o deps :
        o2 \in Perms(DOMAIN pkg[p].Files),
        subs \in UNION { ChildMarkers(p, "CONTAINS", pkg[p].Packages, o3)
                         : o3 \in Perms(DOMAIN pkg[p].Packages) },
        deps \in UNION { ChildMarkers(p, "DEPENDS_ON", pkg[p].Dependencies, o4)
                         : o4 \in Perms(DOMAIN pkg[p].Dependencies) } }

\* C18: the fragment of a successful Render starts with the package's stanza, and
\* its stanza headers, file fragments and Relationship lines are those of a
\* pre-order walk: the files, each followed by its CONTAINS line, then the
\* sub-packages' fragments, each followed by its CONTAINS line, then the
\* dependencies' fragments, each followed by its DEPENDS_ON line, each child once.
C18_PreOrderFragment ==
    \A p \in PkgRefs :
        RenderedOK(p)
        => /\ Head(ret.frag) = <<"##### Package: ">> \o pkg[p].Name
           /\ Markers(ret.frag) \in PreOrder(p)

\* C18 witness: a successful Render of a package with a file, a sub-package and a
\* dependency.
C18_Witness ==
    \E p \in PkgRefs :
        /\ RenderedOK(p)
        /\ FilesOf(p) # {} /\ DOMAIN pkg[p].Packages # {} /\ DOMAIN pkg[p].Dependencies # {}
        /\ Len(Markers(ret.frag)) = 7

\* The characters of a name that are letters, digits, '.' or '-'.
AllowedPart(name) ==
    SelectSeq(name, LAMBDA c : c \in {"a", "b", "m", "n", "0", "1", ".", "-"})

\* C19: AddPackage and AddDependency of a package without ID whose Name has no
\* allowed character return an error and leave the parent's Packages and
\* Dependencies as they were; a package without ID whose Name has one gets the
\* package prefix followed by the allowed characters of the Name as its ID; a
\* package with an ID keeps it.
C19_NameStripping ==
    [][ \A p \in PkgRefs, q \in PkgRefs :
          (ret'.op \in {"AddPackage", "AddDependency"} /\ ret'.recv = p /\ ret'.arg = q)
          => /\ (pkg[q].ID = EmptyStr /\ AllowedPart(pkg[q].Name) = << >>)
                => /\ ret'.err # NilErr
                   /\ pkg'[p].Packages = pkg[p].Packages
                   /\ pkg'[p].Dependencies = pkg[p].Dependencies
             /\ (pkg[q].ID = EmptyStr /\ AllowedPart(pkg[q].Name) # << >>)
                => pkg'[q].ID = <<"SPDXRef-Package-">> \o AllowedPart(pkg[q].Name)
             /\ pkg[q].ID # EmptyStr => pkg'[q].ID = pkg[q].ID ]_vars

\* C19 witness: AddPackage of a package named "!" has failed on a parent that has
\* a sub-package whose ID was derived from the name "b!".
C19_Witness ==
    /\ ret.op = "AddPackage" /\ ret.recv \in PkgRefs /\ ret.arg \in PkgRefs
    /\ pkg[ret.arg].Name = <<"!">> /\ pkg[ret.arg].ID = EmptyStr
    /\ ret.err = <<"performing subpackage preprocessing", ": ",
                   "package name is needed to add a new package">>
    /\ DOMAIN pkg[ret.recv].Packages = { <<"SPDXRef-Package-", "b">> }
    /\ pkg[pkg[ret.recv].Packages[<<"SPDXRef-Package-", "b">>]].Name = <<"b", "!">>

\* Goroutine t is between p.Lock() and p.Unlock() of an AddFile on p.
InAddFile(t, p) ==
    /\ thread[t].op = "AddFile" /\ thread[t].recv = p
    /\ thread[t].pc \in {"Synthesize", "Insert", "Unlock"}

NoCallInProgress == \A t \in Threads : thread[t].pc \in {"idle", "returned"}

\* C15: at most one AddFile call on a package is between Lock and Unlock at a
\* time, and once every call has returned the keys of Files are the IDs of the
\* files whose AddFile returned nil.
C15_AddFileExclusive ==
    \A p \in PkgRefs :
        /\ \A t \in Threads, u \in Threads : (InAddFile(t, p) /\ InAddFile(u, p)) => t = u
        /\ NoCallInProgress
              => DOMAIN pkg[p].Files
                   = { file[thread[t].arg].ID :
                         t \in { u \in Threads : /\ thread[u].pc = "returned"
                                                 /\ thread[u].op = "AddFile"
                                                 /\ thread[u].recv = p
                                                 /\ thread[u].err = NilErr } }

\* The calls of t and u overlapped: neither had returned when the other began.
Overlapped(t, u) == t # u /\ t \notin thread[u].after /\ u \notin thread[t].after

\* C15 witness: two overlapping AddFile calls on one package have returned nil and
\* both files are in Files.
C15_Witness ==
    \E t \in Threads, u \in Threads :
        /\ Overlapped(t, u) /\ NoCallInProgress
        /\ thread[t].pc = "returned" /\ thread[u].pc = "returned"
        /\ thread[t].recv = thread[u].recv
        /\ thread[t].err = NilErr /\ thread[u].err = NilErr
        /\ Cardinality(DOMAIN pkg[thread[t].recv].Files) = 2

\* C16: when an AddFile call returns, with nil or with an error, the mutex of its
\* package is free, and every AddFile call that has begun returns.
C16_LockReleased ==
    /\ [][ \A t \in Threads :
             (thread[t].pc # "returned" /\ thread'[t].pc = "returned"
                /\ thread'[t].op = "AddFile")
             => mutex'[thread'[t].recv] = 0 ]_vars
    /\ \A t \in Threads : (thread[t].pc = "Lock") ~> (thread[t].pc = "returned")

\* C16 witness: an AddFile call has returned an ID-synthesis error and a call on
\* the same package that overlapped it has returned too; the mutex is free.
C16_Witness ==
    \E t \in Threads, u \in Threads :
        /\ Overlapped(t, u)
        /\ thread[t].pc = "returned" /\ thread[u].pc = "returned"
        /\ thread[t].recv = thread[u].recv
        /\ thread[t].err = <<"unable to generate file ID, filename not set">>
        /\ thread[u].err = NilErr
        /\ mutex[thread[t].recv] = 0

\* The call of t was op on p, has returned nil, and its package has the given ID.
Attached(t, op, p, id) ==
    /\ thread[t].op = op /\ thread[t].recv = p
    /\ thread[t].pc = "returned" /\ thread[t].err = NilErr
    /\ pkg[thread[t].arg].ID = id

\* C17: an ID is a key of both Packages and Dependencies of a package only after
\* an AddPackage and an AddDependency call on it, with packages of that ID, that
\* overlapped and both returned nil: calls made one after the other never leave
\* an ID in both maps, and there is an interleaving that does (the witness).
C17_OnlyOverlappingCallsCollide ==
    \A p \in PkgRefs :
        \A id \in DOMAIN pkg[p].Packages \cap DOMAIN pkg[p].Dependencies :
            \E t \in Threads, u \in Threads :
                /\ Overlapped(t, u)
                /\ Attached(t, "AddPackage", p, id)
                /\ Attached(u, "AddDependency", p, id)

\* C17 witness: an AddPackage and an AddDependency call on the same parent, with
\* two packages of the same ID, have both returned nil and the ID is a key of both
\* maps.
C17_Witness ==
    \E t \in Threads, u \in Threads :
        /\ NoCallInProgress
        /\ thread[t].arg # thread[u].arg
        /\ Attached(t, "AddPackage", 1, <<"SPDXRef-Package-", "b">>)
        /\ Attached(u, "AddDependency", 1, <<"SPDXRef-Package-", "b">>)
        /\ <<"SPDXRef-Package-", "b">> \in DOMAIN pkg[1].Packages
        /\ <<"SPDXRef-Package-", "b">> \in DOMAIN pkg[1].Dependencies

====
